---- MODULE Spec2Model ----
(***************************************************************************)
(* State-machine model of the eeg-visualizer session manager, the          *)
(* Streamlit rerun handler (main), the filter pipeline, the windowing      *)
(* utilities, the frame builder, the marker importers, the epoch manager   *)
(* and the band-power estimator.                                           *)
(*                                                                         *)
(* Units: frequencies are whole Hz and sampling rates are even, so that    *)
(* sfreq/2 - 1.0 is exact in integer arithmetic; times are in ticks of     *)
(* 0.05 s (0.25 s = 5 ticks) unless a section says otherwise.              *)
(***************************************************************************)
EXTENDS Integers, Sequences, FiniteSets, TLC

VARIABLES
    session_state,  \* st.session_state: the keys the application stores
    heap,           \* recording objects by identity: id -> content
    edf_file,       \* the EDF upload widget (persists across reruns)
    csv_file,       \* the CSV marker upload widget
    lastOp,         \* the operation that produced this state, with its inputs
    pre,            \* session_state as it was when lastOp was invoked
    ret,            \* value returned by the last get_current_data()
    pin,            \* apply_pipeline: the input recording and parameters
    pout,           \* apply_pipeline: what the run did
    win,            \* restrict_interval: (total, start, end)
    wout,           \* restrict_interval: the returned (start, end)
    gen,            \* a sliding_windows generator: arguments, t, position
    bf,             \* a build_frames call: arguments, position, result
    em,             \* an EpochManager and its last create_epochs_from_labels call
    mk,             \* a marker import: recording length, rows, events, result
    bp,             \* a bandpower_mean call: the recording and the outcome
    tw,             \* a validate_time_window call: recording, request, result
    rg              \* a regional analysis: channels, bads, picks and the bars

\* the variables of the analysis functions
analysis == <<gen, bf, em, mk, bp, tw, rg>>

vars == <<session_state, heap, edf_file, csv_file, lastOp, pre, ret, pin, pout,
          win, wout, gen, bf, em, mk, bp, tw, rg>>

-----------------------------------------------------------------------------
(* Bounds of the model *)

\* recording objects alive at once: identities are 1..MaxObj
MaxObj == 3

\* most annotations a recording holds (marker imports stop there)
MaxAnnot == 2

\* Python's None (a missing recording, an unset optional number)
None == -99

Obj == 1..MaxObj

-----------------------------------------------------------------------------
(* st.session_state: a key is either absent or holds a value.  `has` is the *)
(* set of keys present; the value field of an absent key is kept canonical  *)
(* (None / FALSE) and is never read.                                        *)

Keys == {"eegviz_raw_data", "eegviz_processed_data", "eegviz_filter_applied"}

NoName == "none"

\* SessionManager._initialize_session_state: only missing keys are filled
\* (with None / False, the values the fields of absent keys already carry)
_initialize_session_state(ss) ==
    [ss EXCEPT !.has = Keys]

\* the store before the first SessionManager() is constructed
EmptyStore ==
    [has |-> {}, eegviz_raw_data |-> None, eegviz_processed_data |-> None,
     eegviz_filter_applied |-> FALSE, last_edf_filename |-> NoName]

\* property getters: st.session_state.get(key[, default])
raw_data(ss) ==
    IF "eegviz_raw_data" \in ss.has THEN ss.eegviz_raw_data ELSE None

processed_data(ss) ==
    IF "eegviz_processed_data" \in ss.has THEN ss.eegviz_processed_data ELSE None

filter_applied(ss) ==
    IF "eegviz_filter_applied" \in ss.has THEN ss.eegviz_filter_applied ELSE FALSE

\* property setters
processed_data_setter(ss, value) ==
    [ss EXCEPT !.has = @ \cup {"eegviz_processed_data"},
               !.eegviz_processed_data = value]

filter_applied_setter(ss, value) ==
    [ss EXCEPT !.has = @ \cup {"eegviz_filter_applied"},
               !.eegviz_filter_applied = value]

RawSetterKeepsProcessed(ss, value) ==
    [ss EXCEPT !.has = @ \cup {"eegviz_raw_data"},
               !.eegviz_raw_data = value]

raw_data_setter(ss, value) ==
    LET s1 == [ss EXCEPT !.has = @ \cup {"eegviz_raw_data"},
                         !.eegviz_raw_data = value]
    IN  IF value # None
        THEN filter_applied_setter(processed_data_setter(s1, None), FALSE)
        ELSE s1

GetCurrentAlwaysRaw(ss) ==
    raw_data(ss)

get_current_data(ss) ==
    IF processed_data(ss) # None THEN processed_data(ss) ELSE raw_data(ss)

ClearKeepsFlag(ss) ==
    [ss EXCEPT !.has = @ \ {"eegviz_raw_data", "eegviz_processed_data"},
               !.eegviz_raw_data = None,
               !.eegviz_processed_data = None]

clear_session(ss) ==
    [ss EXCEPT !.has = @ \ Keys,
               !.eegviz_raw_data = None,
               !.eegviz_processed_data = None,
               !.eegviz_filter_applied = FALSE]

-----------------------------------------------------------------------------
(* Recordings (mne.io.Raw), by content.  steps is the list of pipeline      *)
(* transforms applied to the samples, hf the upper cutoff handed to the     *)
(* band filter (None if none was).                                          *)

NullRec == [src |-> NoName, sfreq |-> 0, ch_names |-> {}, bads |-> {},
            annots |-> 0, steps |-> <<>>, hf |-> None]

\* an identity no live object uses (what a constructor or copy() returns)
Fresh(h) == CHOOSE o \in Obj : h[o] = NullRec /\ \A q \in Obj : q < o => h[q] # NullRec

\* raw.copy(): a new object with the same content
copy(h, raw) ==
    LET id == Fresh(h) IN [heap |-> [h EXCEPT ![id] = h[raw]], id |-> id]

-----------------------------------------------------------------------------
(* preprocess/filtering.py *)

\* the five steps of apply_pipeline, each on the content of proc
resample_step(r, p) ==
    IF p.resample # None /\ p.resample # 0 /\ r.sfreq # p.resample
    THEN [r EXCEPT !.sfreq = p.resample, !.steps = Append(@, "resample")]
    ELSE r

notch_step(r, p) ==
    IF p.notch # None THEN [r EXCEPT !.steps = Append(@, "notch")] ELSE r

Min(a, b) == IF a <= b THEN a ELSE b

Max(a, b) == IF a >= b THEN a ELSE b

HfUnclamped(r, p) ==
    IF p.h_freq # None /\ p.h_freq # 0 THEN p.h_freq ELSE r.sfreq \div 2 - 1

\* line 12: hf = min(h_freq or (sfreq/2 - 1.0), sfreq/2 - 1.0), with sfreq
\* read from proc, i.e. after the resampling step
clamp_hf(r, p) ==
    Min(IF p.h_freq # None /\ p.h_freq # 0 THEN p.h_freq ELSE r.sfreq \div 2 - 1,
        r.sfreq \div 2 - 1)

filter_step(r, p) ==
    IF p.l_freq # None \/ p.h_freq # None
    THEN [r EXCEPT !.hf = clamp_hf(r, p), !.steps = Append(@, "filter")]
    ELSE r

interpolate_step(r, p) ==
    IF p.interpolate /\ r.bads # {}
    THEN [r EXCEPT !.steps = Append(@, "interpolate")]
    ELSE r

reference_step(r, p) ==
    IF p.ref_avg THEN [r EXCEPT !.steps = Append(@, "reference")] ELSE r

PipelineInPlace(h, raw, p) ==
    LET r == reference_step(interpolate_step(filter_step(notch_step(
                 resample_step(h[raw], p), p), p), p), p)
    IN  [heap |-> [h EXCEPT ![raw] = r], id |-> raw]

PipelineFilterFirst(h, raw, p) ==
    LET proc == Fresh(h)
        r == reference_step(interpolate_step(notch_step(resample_step(
                 filter_step(h[raw], p), p), p), p), p)
    IN  [heap |-> [h EXCEPT ![proc] = r], id |-> proc]

\* apply_pipeline(raw, **params): returns the heap after the call and the
\* identity of the returned recording
apply_pipeline(h, raw, p) ==
    LET proc == Fresh(h)
        r == reference_step(interpolate_step(filter_step(notch_step(
                 resample_step(h[raw], p), p), p), p), p)
    IN  [heap |-> [h EXCEPT ![proc] = r], id |-> proc]

-----------------------------------------------------------------------------
(* core/validation.py *)

\* DataValidator.validate_filter_params: the list of error messages
validate_filter_params(r, l_freq, h_freq, resample_freq) ==
    LET nyquist == r.sfreq \div 2
        e1 == IF l_freq # None
              THEN IF l_freq < 0 THEN <<"hp_positive">>
                   ELSE IF l_freq >= nyquist THEN <<"hp_nyquist">> ELSE <<>>
              ELSE <<>>
        e2 == IF h_freq # None
              THEN IF h_freq <= 0 THEN <<"lp_positive">>
                   ELSE IF h_freq >= nyquist THEN <<"lp_nyquist">> ELSE <<>>
              ELSE <<>>
        e3 == IF l_freq # None /\ h_freq # None /\ l_freq >= h_freq
              THEN <<"hp_below_lp">> ELSE <<>>
        e4 == IF resample_freq # None
              THEN IF resample_freq <= 0 THEN <<"rs_positive">>
                   ELSE IF resample_freq > r.sfreq THEN <<"rs_upsample">>
                   ELSE IF h_freq # None /\ resample_freq < 2 * h_freq
                        THEN <<"rs_below_2lp">> ELSE <<>>
              ELSE <<>>
    IN  e1 \o e2 \o e3 \o e4

-----------------------------------------------------------------------------
(* preprocess/windows.py *)

\* 0.25 s, the minimum width restrict_interval forces
MinWidth == 5

restrict_interval(total, start, end) ==
    LET s == Max(0, Min(start, total))
        e == Max(0, Min(end, total))
    IN  <<s, IF e <= s THEN Min(total, s + MinWidth) ELSE e>>

\* sliding_windows is a generator: g holds its arguments, its local t and
\* where it stands (test: at the while condition; yield: inside the loop;
\* done: the loop was left).  tol is the literal 1e-9 in g's time unit.
GenIdle ==
    [start |-> 0, end |-> 0, win |-> 0, step |-> 0, tol |-> 0, t |-> 0,
     pc |-> "idle", yielded |-> <<>>]

\* line 12: t = start
sliding_windows(start, end, win_len, step, tol) ==
    [start |-> start, end |-> end, win |-> win_len, step |-> step,
     tol |-> tol, t |-> start, pc |-> "test", yielded |-> <<>>]

\* line 13: while t + win <= end + 1e-9
sliding_test(g) ==
    g.t + g.win <= g.end + g.tol

SlidingAdvanceByWin(g) ==
    g.t + g.win

\* line 15: t += step
sliding_advance(g) ==
    g.t + g.step

-----------------------------------------------------------------------------
(* analysis/psd.py, analysis/bands.py, viz/temporal_gif.py *)

\* ticks per second: a tick is 0.05 s and MinWidth ticks are 0.25 s
TicksPerSecond == 4 * MinWidth

\* index of the sample nearest to time x (ticks) at sfreq Hz; with the rates
\* used here x * sfreq / TicksPerSecond is never halfway between two integers
time_index(sfreq, x) ==
    (2 * x * sfreq + TicksPerSecond) \div (2 * TicksPerSecond)

\* seg = raw.copy().crop(tmin=a, tmax=b); seg.n_times (both ends included)
crop_n_times(sfreq, a, b) ==
    time_index(sfreq, b) - time_index(sfreq, a) + 1

NfftNotRaised(n_times) ==
    Min(512, n_times)

\* psd.py line 6: nfft = int(min(512, n_times)); nfft = max(nfft, 64)
welch_nfft(n_times) ==
    Max(Min(512, n_times), 64)

\* psd.py line 7: nover = int(max(0, nfft // 2))
welch_noverlap(n_times) ==
    Max(0, welch_nfft(n_times) \div 2)

\* bands.py line 6: nfft = int(min(512, raw.n_times)); nfft = max(nfft, 64)
bands_nfft(n_times) ==
    Max(Min(512, n_times), 64)

\* bands.py line 7: nover = int(max(0, nfft // 2))
bands_noverlap(n_times) ==
    Max(0, bands_nfft(n_times) \div 2)

\* the FFT bins compute_psd keeps: k * sfreq / nfft within [fmin, fmax]
psd_bins(n_times, sfreq, fmin, fmax) ==
    {k \in 0..(bands_nfft(n_times) \div 2) :
        /\ fmin * bands_nfft(n_times) <= k * sfreq
        /\ k * sfreq <= fmax * bands_nfft(n_times)}

\* bandpower_segment(seg, fmin, fmax, picks): compute_psd raises ValueError
\* when n_fft exceeds the segment's n_times; otherwise the band-power vector
\* is finite or not, depending on the samples
bandpower_segment(n_times, finite) ==
    IF welch_nfft(n_times) > n_times THEN "raises"
    ELSE IF finite THEN "finite" ELSE "nonfinite"

\* bandpower_mean(raw, fmin, fmax) on a sine recording of n_times samples:
\* the same computation on the whole recording; with no FFT bin inside the
\* band there is no value to average
bandpower_mean(n_times, sfreq, fmin, fmax) ==
    IF bands_nfft(n_times) > n_times THEN "raises"
    ELSE IF psd_bins(n_times, sfreq, fmin, fmax) = {} THEN "no_bins"
    ELSE "positive"

\* a recording handed to the two estimators: what bandpower_mean returned
\* and the n_fft and n_overlap each estimator passed to compute_psd
BpIdle ==
    [sfreq |-> 0, n_times |-> 0, freq |-> 0, fmin |-> 0, fmax |-> 0,
     result |-> "not_called", mean_psd |-> <<0, 0>>,
     seg_result |-> "not_called", seg_psd |-> <<0, 0>>]

\* build_frames, lines 18-25: what the loop body does with window w
frame_outcome(sfreq, w, finite) ==
    IF Min(512, crop_n_times(sfreq, w[1], w[2])) < 32 THEN "skip_short"
    ELSE IF bandpower_segment(crop_n_times(sfreq, w[1], w[2]), finite) = "raises"
         THEN "raises"
    ELSE IF bandpower_segment(crop_n_times(sfreq, w[1], w[2]), finite) = "nonfinite"
         THEN "skip_nonfinite"
    ELSE "kept"

\* build_frames, line 16: list(sliding_windows(...)) or [(start, end)]
frame_windows(yielded, start, end) ==
    IF yielded = <<>> THEN << <<start, end>> >> ELSE yielded

\* the band power of the picked channel over window w, in units of 1e-12:
\* a function of the recording's samples, here a flat or a rising signal
segment_power(signal, w) ==
    IF signal = "flat" THEN 1 ELSE 1 + w[1]

\* line 25: vals.append(bp); meta.append((a,b))
keep_frame(b, w, value) ==
    [b EXCEPT !.vals = Append(@, value), !.meta = Append(@, w)]

\* the values of frames in ascending order (np.percentile flattens and sorts)
RECURSIVE sort_values(_)
sort_values(s) ==
    IF s = <<>> THEN <<>>
    ELSE LET rest == sort_values(Tail(s))
             k    == Cardinality({i \in 1..Len(rest) : rest[i] <= Head(s)})
         IN  SubSeq(rest, 1, k) \o <<Head(s)>> \o SubSeq(rest, k + 1, Len(rest))

\* 1e-12 in the units of the colour range (1e-14)
Nudge == 100

\* np.percentile(frames, q), linear interpolation between the two nearest
\* ranks, times Nudge so that the interpolated value is a whole number
percentile(vals, q) ==
    LET s   == sort_values(vals)
        pos == q * (Len(s) - 1)
        k   == pos \div 100
        r   == pos % 100
    IN  IF r = 0 THEN Nudge * s[k + 1]
        ELSE Nudge * s[k + 1] + r * (s[k + 2] - s[k + 1])

\* frames.min(), frames.max()
frames_min(vals) ==
    CHOOSE x \in {vals[i] : i \in 1..Len(vals)} :
        \A i \in 1..Len(vals) : x <= vals[i]

frames_max(vals) ==
    CHOOSE x \in {vals[i] : i \in 1..Len(vals)} :
        \A i \in 1..Len(vals) : x >= vals[i]

ColourRangeNoNudge(vals, pmin, pmax) ==
    IF percentile(vals, pmin) >= percentile(vals, pmax)
    THEN <<Nudge * frames_min(vals), Nudge * frames_max(vals)>>
    ELSE <<percentile(vals, pmin), percentile(vals, pmax)>>

\* lines 29-32: the percentiles or, when they are degenerate, the overall
\* min and max, moved 1e-12 apart each when equal (the frames are finite, so
\* the percentiles are; band powers are of a size at which 1e-12 is not
\* absorbed by rounding)
colour_range(vals, pmin, pmax) ==
    IF percentile(vals, pmin) >= percentile(vals, pmax)
    THEN IF frames_min(vals) = frames_max(vals)
         THEN <<Nudge * frames_min(vals) - Nudge, Nudge * frames_max(vals) + Nudge>>
         ELSE <<Nudge * frames_min(vals), Nudge * frames_max(vals)>>
    ELSE <<percentile(vals, pmin), percentile(vals, pmax)>>

\* a build_frames call: its arguments, where it stands (check: line 14;
\* listing: line 16; loop: lines 17-25; returned; raised), the windows,
\* the index of the next one, the frames kept (vals) with their windows
\* (meta), what it returned and the colour range returned with the frames
BfIdle ==
    [sfreq |-> 0, start |-> 0, end |-> 0, win_len |-> 0, step |-> 0,
     pmin |-> 0, pmax |-> 0, signal |-> "flat",
     pc |-> "idle", wins |-> <<>>, i |-> 0, vals |-> <<>>, meta |-> <<>>,
     result |-> "pending", vm |-> <<0, 0>>]

-----------------------------------------------------------------------------
(* io/markers_csv.py, io/markers_json.py.  A row is <<onset, duration>>, an  *)
(* event likewise; T is raw.times[-1].                                       *)

\* line 13 (CSV), line 35 (JSON): if d <= 0 or o >= T: continue
marker_row_passes(T, r) ==
    ~(r[2] <= 0 \/ r[1] >= T)

ClipRowOnsetOnly(T, r) ==
    <<Max(0, r[1]), r[2]>>

\* lines 15 and 18: end = min(T, o + d); o = max(0.0, o); (o, end - o)
clip_row(T, r) ==
    <<Max(0, r[1]), Min(T, r[1] + r[2]) - Max(0, r[1])>>

\* lines 12-18: the rows that become events, in file order
marker_events(T, rows) ==
    LET Keep(r) == marker_row_passes(T, r) /\ ~(clip_row(T, r)[2] <= 0)
        kept    == SelectSeq(rows, Keep)
    IN  [i \in 1..Len(kept) |-> clip_row(T, kept[i])]

\* lines 20-23: raw.set_annotations(raw.annotations + ann); return len(on)
append_markers(annotations, T, rows) ==
    [annotations |-> annotations \o marker_events(T, rows),
     ret |-> Len(marker_events(T, rows))]

\* markers_json.py lines 22-30: a mark is <<start, end>> (datetimes);
\* onsets are counted from the recording's orig_time or, without one, from
\* the earliest mark
json_rows(marks, base_orig) ==
    LET s0 == CHOOSE x \in {marks[i][1] : i \in 1..Len(marks)} :
                  \A i \in 1..Len(marks) : x <= marks[i][1]
        org == IF base_orig # None THEN base_orig ELSE s0
    IN  [i \in 1..Len(marks) |-> <<marks[i][1] - org, marks[i][2] - marks[i][1]>>]

\* markers_json.py: no marks, no import
add_json_markers(annotations, T, marks, base_orig) ==
    IF marks = <<>> THEN [annotations |-> annotations, ret |-> 0]
    ELSE append_markers(annotations, T, json_rows(marks, base_orig))

\* markers_csv.py: a file without the three columns imports nothing
add_csv_marker_rows(annotations, T, rows, columns) ==
    IF ~columns THEN [annotations |-> annotations, ret |-> 0]
    ELSE append_markers(annotations, T, rows)

\* a marker import: the file (CSV: rows and whether the columns exist;
\* JSON: marks and the recording's orig_time; rows are then the onsets and
\* durations derived from the marks), the recording's events before and
\* after, and the value returned
MkIdle ==
    [kind |-> "none", T |-> 0, rows |-> <<>>, columns |-> TRUE,
     marks |-> <<>>, base_orig |-> None, before |-> <<>>,
     events |-> <<>>, ret |-> None]

-----------------------------------------------------------------------------
(* core/epochs.py.  annotations is the sequence of the recording's           *)
(* annotation labels; an event-id map is a set of <<label, code>> pairs; an  *)
(* Epochs object is represented by the number of epochs it holds.            *)

Labels == {"A", "B", "BAD_seg"}

LabelRank == [l \in Labels |-> IF l = "A" THEN 1 ELSE IF l = "B" THEN 2 ELSE 3]

\* events_from_annotations skips descriptions that start with bad or edge
\* and numbers the others in sorted order
event_labels(annotations) ==
    {annotations[i] : i \in 1..Len(annotations)} \ {"BAD_seg"}

events_from_annotations(annotations) ==
    [events  |-> SelectSeq(annotations, LAMBDA l : l # "BAD_seg"),
     mapping |-> {<<l, Cardinality({x \in event_labels(annotations) :
                                       LabelRank[x] <= LabelRank[l]})>> :
                     l \in event_labels(annotations)}]

NoError == "none"

\* Python's None where an event-id map is expected
NoMap == {<<"None", 0>>}

\* EpochManager.__init__
EmNew == [last_epochs |-> None, last_event_id |-> NoMap]

\* the number of events an Epochs object is built from: those whose label
\* is in event_id
matching_events(events, event_id) ==
    Len(SelectSeq(events, LAMBDA l : \E pr \in event_id : pr[1] = l))

EpochsResultNoEmptyCheck(m, event_id, n) ==
    [mgr |-> [last_epochs |-> n, last_event_id |-> event_id],
     epochs |-> n, event_id |-> event_id, error |-> NoError]

EpochsResultStoresFirst(m, event_id, n) ==
    IF n = 0
    THEN [mgr |-> [last_epochs |-> n, last_event_id |-> event_id],
          epochs |-> None, event_id |-> NoMap, error |-> "no_valid_epochs"]
    ELSE [mgr |-> [last_epochs |-> n, last_event_id |-> event_id],
          epochs |-> n, event_id |-> event_id, error |-> NoError]

\* lines 79-87: given the n epochs that survived
epochs_result(m, event_id, n) ==
    IF n = 0
    THEN [mgr |-> m, epochs |-> None, event_id |-> NoMap,
          error |-> "no_valid_epochs"]
    ELSE [mgr |-> [last_epochs |-> n, last_event_id |-> event_id],
          epochs |-> n, event_id |-> event_id, error |-> NoError]

\* create_epochs_from_labels on manager m; dropped is the number of epochs
\* mne.Epochs rejects, raises tells which MNE call (if any) raises
create_epochs_from_labels(m, annotations, labels_to_use, dropped, raises) ==
    LET ev       == events_from_annotations(annotations)
        event_id == {pr \in ev.mapping : pr[1] \in labels_to_use}
        fail(msg) == [mgr |-> m, epochs |-> None, event_id |-> NoMap,
                      error |-> msg]
    IN  IF Len(annotations) = 0 THEN fail("no_annotations")
        ELSE IF raises = "events" THEN fail("failed")
        ELSE IF Len(ev.events) = 0 THEN fail("no_events")
        ELSE IF event_id = {} THEN fail("no_matching_labels")
        ELSE IF raises = "epochs" THEN fail("failed")
        ELSE epochs_result(m, event_id,
                 Max(0, matching_events(ev.events, event_id) - dropped))

\* an EpochManager (mgr), the arguments and the result of its last call, and
\* the manager as it was before that call
EmIdle ==
    [mgr |-> EmNew, annotations |-> <<>>, labels_to_use |-> {},
     dropped |-> 0, before |-> EmNew, epochs |-> None, event_id |-> NoMap,
     error |-> NoError, called |-> FALSE]

-----------------------------------------------------------------------------
(* The uploads the rerun handler is given *)

\* uploaded EDF files, by name and size
Files == {"a.edf", "b.edf"}

CsvFiles == {"m.csv"}

\* channel names of a loaded file after normalize_names / set_montage
Channels == {"AF3", "AF4"}

\* mne.io.read_raw_edf(path, preload=True) followed by normalize_names and
\* set_montage: the recording a file holds
read_raw_edf(f) ==
    [src |-> f, sfreq |-> IF f = "a.edf" THEN 128 ELSE 256,
     ch_names |-> Channels, bads |-> {}, annots |-> 0, steps |-> <<>>,
     hf |-> None]

\* valid marker rows of a CSV file (rows add_csv_markers keeps)
csv_rows(c) == IF c = NoName THEN 0 ELSE 1

\* FileUploadComponent.validate_edf_file: the extension check
validate_edf_file(f) == f \in Files

\* the widget values render_filter_controls can return
UiParams ==
    [notch : {60}, l_freq : {1}, h_freq : {45, 120},
     resample : {128, 256}, ref_avg : {TRUE}, interpolate : {FALSE}]

\* the widget defaults (notch 60, high-pass 1, low-pass 45, resample 256)
DefaultParams ==
    [notch |-> 60, l_freq |-> 1, h_freq |-> 45, resample |-> 256,
     ref_avg |-> TRUE, interpolate |-> FALSE]

\* the channel widgets' values: <<channels to keep, bad channels>>
ChannelChoices ==
    {<<{}, {}>>, <<Channels, {}>>, <<{"AF3"}, {}>>, <<Channels, {"AF3"}>>}

\* objects only the store references survive a rerun
GC(h, ss) ==
    [o \in Obj |->
        IF o \in {raw_data(ss), processed_data(ss)} THEN h[o] ELSE NullRec]

-----------------------------------------------------------------------------
(* app/main.py *)

\* __file_changed(uploaded_file, session): compares with, and on a change
\* records, the name and size of the last file seen
_file_changed(ss, f) ==
    IF ss.last_edf_filename # f
    THEN [ss |-> [ss EXCEPT !.last_edf_filename = f], changed |-> TRUE]
    ELSE [ss |-> ss, changed |-> FALSE]

\* add_csv_markers(raw, path): appends the valid rows to raw's annotations
add_csv_markers(h, raw, c) ==
    IF csv_rows(c) = 0 THEN h
    ELSE [h EXCEPT ![raw].annots = @ + csv_rows(c)]

\* ChannelSelectionComponent.apply_channel_selection, in place on raw
apply_channel_selection(h, raw, kept, bads) ==
    [h EXCEPT ![raw].ch_names = IF kept # @ THEN kept ELSE @,
              ![raw].bads = bads]

\* FilterControlsComponent.apply_filters: the pipeline's output, or a plain
\* copy of raw when the pipeline raised
apply_filters(h, raw, p, raises) ==
    IF raises THEN copy(h, raw) ELSE apply_pipeline(h, raw, p)

\* main, line 66: whether this rerun reads the uploaded file
needs_load(ss, f) ==
    f # NoName /\ (raw_data(ss) = None \/ ss.last_edf_filename # f)

\* main, lines 65-86: load the EDF file if none is held or the file changed
load_step(ss, h, f, loadOk) ==
    LET fc   == IF raw_data(ss) = None
                THEN [ss |-> ss, changed |-> TRUE]
                ELSE _file_changed(ss, f)
        id   == Fresh(h)
        s1   == raw_data_setter(fc.ss, id)
    IN  IF ~fc.changed THEN [ss |-> fc.ss, heap |-> h, stage |-> "held"]
        ELSE IF ~loadOk THEN [ss |-> fc.ss, heap |-> h, stage |-> "load_failed"]
        ELSE [ss |-> s1, heap |-> GC([h EXCEPT ![id] = read_raw_edf(f)], s1),
              stage |-> "loaded"]

\* main, lines 100-121: the filter step; errors is the validation result
filter_step_main(ss, h, raw, apply, p, raises) ==
    LET errors == validate_filter_params(h[raw], p.l_freq, p.h_freq, p.resample)
        out    == apply_filters(h, raw, p, raises)
    IN  IF apply /\ errors = <<>>
        THEN [ss |-> filter_applied_setter(
                         processed_data_setter(ss, out.id), TRUE),
              heap |-> out.heap, errors |-> errors, ran |-> TRUE]
        ELSE [ss |-> ss, heap |-> h,
              errors |-> IF apply THEN errors ELSE <<>>, ran |-> FALSE]

\* main, lines 101-119: which dataset the rest of the rerun analyses
current_data(ssBefore, ssAfter, apply) ==
    IF apply \/ (filter_applied(ssBefore) /\ processed_data(ssBefore) # None)
    THEN IF processed_data(ssAfter) # None THEN "processed" ELSE "none"
    ELSE "raw_copy"

\* what a rerun leaves behind: stage tells how far it got; offered tells
\* whether kept and bads are values the channel widgets could return (kept
\* among raw.ch_names, bads among kept)
run_result(ss, h, stage, reloaded, apply, errors, ran, current, offered) ==
    [ss |-> ss, heap |-> h, offered |-> offered,
     info |-> [op |-> "main", stage |-> stage, reloaded |-> reloaded,
               apply |-> apply, errors |-> errors, ran |-> ran,
               current |-> current]]

\* main, lines 100-158, given the outcome fl of the filter step
main_analyse(ld, fl, apply, offered) ==
    run_result(fl.ss, fl.heap,
               IF current_data(ld.ss, fl.ss, apply) = "none"
               THEN "no_current_data" ELSE "done",
               ld.stage = "loaded", apply, fl.errors, fl.ran,
               current_data(ld.ss, fl.ss, apply), offered)

\* main, lines 93-119: channel selection on raw, then the filter step
main_select(ld, h2, raw, apply, kept, bads, p, raises) ==
    IF kept = {}
    THEN run_result(ld.ss, h2, "pick_failed", ld.stage = "loaded", apply,
                    <<>>, FALSE, "none", bads = {})
    ELSE main_analyse(ld,
             filter_step_main(ld.ss,
                 apply_channel_selection(h2, raw, kept, bads),
                 raw, apply, p, raises),
             apply, kept \subseteq h2[raw].ch_names /\ bads \subseteq kept)

\* main, lines 88-91: raw = session.raw_data, then the marker files
main_loaded(ld, c, apply, kept, bads, p, raises) ==
    IF ld.stage = "load_failed"
    THEN run_result(ld.ss, ld.heap, "load_failed", FALSE, apply, <<>>, FALSE,
                    "none", TRUE)
    ELSE main_select(ld, add_csv_markers(ld.heap, raw_data(ld.ss), c),
                     raw_data(ld.ss), apply, kept, bads, p, raises)

\* the Apply Filters button exists only after a rerun that reached
\* render_filter_controls (line 98)
button_rendered(last) ==
    last.op = "main" /\ last.stage \in {"done", "no_current_data"}

\* main(): one rerun of the script, from the widget values to the session
\* it leaves behind
main(ss, h, f, c, apply, kept, bads, p, loadOk, raises) ==
    IF f = NoName \/ ~validate_edf_file(f)
    THEN run_result(_initialize_session_state(ss), h, "no_file", FALSE, apply,
                    <<>>, FALSE, "none", TRUE)
    ELSE main_loaded(load_step(_initialize_session_state(ss), h, f, loadOk),
                     c, apply, kept, bads, p, raises)

-----------------------------------------------------------------------------
(* core/validation.py, validate_time_window.  Times are in tenths of a      *)
(* sample period, 1 / (10 * sfreq) s: the recording's n samples are at      *)
(* 0, 10, ..., 10 * (n - 1) and 0.1 s is sfreq units.                       *)

\* raw.times[-1], the time of the last sample
last_sample_time(n) == 10 * (n - 1)

\* validate_time_window(raw, start_sec, end_sec): the corrected start and
\* end (the warnings are messages only)
validate_time_window(n, sfreq, start_sec, end_sec) ==
    LET max_time        == 10 * n
        corrected_start == Max(0, Min(start_sec, max_time))
        corrected_end   == Max(corrected_start, Min(end_sec, max_time))
    IN  IF corrected_end - corrected_start < sfreq
        THEN <<corrected_start, Min(corrected_start + sfreq, max_time)>>
        ELSE <<corrected_start, corrected_end>>

\* a validate_time_window call: the recording (n samples at sfreq Hz), the
\* requested window and the window returned
TwIdle ==
    [n |-> 0, sfreq |-> 0, start |-> 0, end |-> 0, result |-> <<>>]

-----------------------------------------------------------------------------
(* viz/regional.py and the regional bars of ui/visualizations.py.  Channel  *)
(* lists are sequences, positions count from 1.                             *)

REGIONS ==
    [Frontal       |-> <<"AF3", "AF4", "F3", "F4", "F7", "F8">>,
     Frontocentral |-> <<"FC5", "FC6">>,
     Temporal      |-> <<"T7", "T8">>,
     Parietal      |-> <<"P7", "P8">>,
     Occipital     |-> <<"O1", "O2">>]

\* the elements of a sequence
Range(s) == {s[i] : i \in 1..Len(s)}

RECURSIVE SumSeq(_)
SumSeq(s) == IF s = <<>> THEN 0 ELSE Head(s) + SumSeq(Tail(s))

\* the band power of a channel of the recording
channel_power(c) ==
    IF c = "AF3" THEN 1 ELSE IF c = "T7" THEN 3 ELSE IF c = "O1" THEN 7 ELSE 15

\* mne.pick_types(info, eeg=True, exclude="bads"): the positions of the
\* channels that are not bad, in channel order
pick_types(ch_names, bads) ==
    SelectSeq([i \in 1..Len(ch_names) |-> i], LAMBDA i : ch_names[i] \notin bads)

\* bandpower_mean(seg, fmin, fmax, picks=picks): one value per picked channel
picked_power(ch_names, picks) ==
    [j \in 1..Len(picks) |-> channel_power(ch_names[picks[j]])]

\* region_means, line 13: name_to_idx = {ch: i for i, ch in enumerate(ch_names)}
name_to_idx(ch_names, c) ==
    CHOOSE i \in 1..Len(ch_names) : ch_names[i] = c

\* region_means, line 16: the positions of the region's channels present
region_idxs(ch_names, reg) ==
    LET present == SelectSeq(REGIONS[reg], LAMBDA c : c \in Range(ch_names))
    IN  [k \in 1..Len(present) |-> name_to_idx(ch_names, present[k])]

\* region_means(ch_names, values): IndexError when a position lies beyond
\* values; otherwise a bar <<sum, count>> (the mean is sum / count) for
\* every region with a channel present (the list is sorted by region name)
region_means(ch_names, values) ==
    LET regs == {reg \in DOMAIN REGIONS : region_idxs(ch_names, reg) # <<>>}
    IN  IF \E reg \in regs :
              \E k \in 1..Len(region_idxs(ch_names, reg)) :
                  region_idxs(ch_names, reg)[k] > Len(values)
        THEN [status |-> "raises", bars |-> <<>>]
        ELSE [status |-> "bars",
              bars |-> [reg \in regs |->
                          <<SumSeq([k \in 1..Len(region_idxs(ch_names, reg)) |->
                                      values[region_idxs(ch_names, reg)[k]]]),
                            Len(region_idxs(ch_names, reg))>>]]

\* a regional analysis: the recording's channels and bad channels, the
\* picks main computed, the band powers and what region_means made of them
RgIdle ==
    [ch_names |-> <<>>, bads |-> {}, picks |-> <<>>, values |-> <<>>,
     status |-> "not_called", bars |-> <<>>]

-----------------------------------------------------------------------------
(* Initial state: a SessionManager has been constructed on an empty store,  *)
(* nothing is uploaded, no pure function has been called yet.               *)

NoOp == [op |-> "none", arg |-> None, flag |-> FALSE]

NoParams ==
    [notch |-> None, l_freq |-> None, h_freq |-> None, resample |-> None,
     ref_avg |-> FALSE, interpolate |-> FALSE]

InitSession ==
    /\ session_state = _initialize_session_state(EmptyStore)
    /\ edf_file = NoName
    /\ csv_file = NoName
    /\ lastOp = NoOp
    /\ pre = EmptyStore
    /\ ret = None

\* no analysis function has been called
AnalysisIdle ==
    /\ gen = GenIdle
    /\ bf = BfIdle
    /\ em = EmIdle
    /\ mk = MkIdle
    /\ bp = BpIdle
    /\ tw = TwIdle
    /\ rg = RgIdle

\* no recording exists, no pipeline or interval call has been made
PureIdle ==
    /\ heap = [o \in Obj |-> NullRec]
    /\ pin = [raw |-> None, p |-> NoParams]
    /\ pout = None
    /\ win = <<0, 0, 0>>
    /\ wout = <<>>

Init ==
    /\ InitSession
    /\ heap = [o \in Obj |-> NullRec]
    /\ pin = [raw |-> None, p |-> NoParams]
    /\ pout = None
    /\ win = <<0, 0, 0>>
    /\ wout = <<>>
    /\ AnalysisIdle

-----------------------------------------------------------------------------
(* The SessionManager's public operations, called in any order with any     *)
(* recording (recordings are opaque identities here).                       *)

NewSessionManager ==
    /\ session_state' = _initialize_session_state(session_state)
    /\ lastOp' = [op |-> "__init__", arg |-> None, flag |-> FALSE]
    /\ pre' = session_state
    /\ UNCHANGED analysis
    /\ UNCHANGED <<heap, edf_file, csv_file, ret, pin, pout, win, wout>>

SetRawData ==
    \E v \in Obj \cup {None} :
        /\ session_state' = raw_data_setter(session_state, v)
        /\ lastOp' = [op |-> "raw_data", arg |-> v, flag |-> FALSE]
        /\ pre' = session_state
        /\ UNCHANGED analysis
        /\ UNCHANGED <<heap, edf_file, csv_file, ret, pin, pout, win, wout>>

SetProcessedData ==
    \E v \in Obj \cup {None} :
        /\ session_state' = processed_data_setter(session_state, v)
        /\ lastOp' = [op |-> "processed_data", arg |-> v, flag |-> FALSE]
        /\ pre' = session_state
        /\ UNCHANGED analysis
        /\ UNCHANGED <<heap, edf_file, csv_file, ret, pin, pout, win, wout>>

SetFilterApplied ==
    \E b \in BOOLEAN :
        /\ session_state' = filter_applied_setter(session_state, b)
        /\ lastOp' = [op |-> "filter_applied", arg |-> None, flag |-> b]
        /\ pre' = session_state
        /\ UNCHANGED analysis
        /\ UNCHANGED <<heap, edf_file, csv_file, ret, pin, pout, win, wout>>

GetCurrentData ==
    /\ ret' = get_current_data(session_state)
    /\ lastOp' = [op |-> "get_current_data", arg |-> None, flag |-> FALSE]
    /\ pre' = session_state
    /\ UNCHANGED analysis
    /\ UNCHANGED <<session_state, heap, edf_file, csv_file, pin, pout, win, wout>>

ClearSession ==
    /\ session_state' = clear_session(session_state)
    /\ lastOp' = [op |-> "clear_session", arg |-> None, flag |-> FALSE]
    /\ pre' = session_state
    /\ UNCHANGED analysis
    /\ UNCHANGED <<heap, edf_file, csv_file, ret, pin, pout, win, wout>>

Next ==
    \/ NewSessionManager
    \/ SetRawData
    \/ SetProcessedData
    \/ SetFilterApplied
    \/ GetCurrentData
    \/ ClearSession

Spec == Init /\ [][Next]_vars

-----------------------------------------------------------------------------
(* The application: every user interaction reruns main() on the store the   *)
(* previous rerun left.  The upload widgets keep their files across reruns; *)
(* a rerun follows one interaction: an upload changes, or a widget of the   *)
(* page changes, or Apply Filters is pressed (uploads as they are, and only *)
(* if the previous rerun drew the button).                                  *)

Rerun ==
    \E f \in Files \cup {NoName}, c \in CsvFiles \cup {NoName},
       apply \in BOOLEAN, ch \in ChannelChoices :
      /\ f = edf_file \/ c = csv_file
      /\ apply => (f = edf_file /\ c = csv_file /\ button_rendered(lastOp))
      /\ raw_data(session_state) # None
            => heap[raw_data(session_state)].annots + csv_rows(c) <= MaxAnnot
      /\ \E p \in IF apply THEN UiParams ELSE {DefaultParams},
            loadOk \in IF needs_load(session_state, f) THEN BOOLEAN ELSE {TRUE},
            raises \in IF apply THEN BOOLEAN ELSE {FALSE} :
          \E out \in {main(session_state, heap, f, c, apply, ch[1], ch[2], p,
                          loadOk, raises)} :
            /\ out.offered
            /\ session_state' = out.ss
            /\ heap' = GC(out.heap, out.ss)
            /\ edf_file' = f
            /\ csv_file' = c
            /\ lastOp' = out.info
            /\ pre' = session_state
            /\ UNCHANGED analysis
            /\ UNCHANGED <<ret, pin, pout, win, wout>>

NextApp == Rerun

SpecApp == Init /\ [][NextApp]_vars

-----------------------------------------------------------------------------
(* apply_pipeline as a pure function: one call on a recording and           *)
(* parameters drawn from bounded sets.                                      *)

PipeParams ==
    [notch : {None, 50}, l_freq : {None, 0, 1, 44, 100},
     h_freq : {None, 0, 45, 64, 200}, resample : {None, 0, 64, 90, 128},
     ref_avg : BOOLEAN, interpolate : BOOLEAN]

PipeRecordings ==
    {[read_raw_edf(f) EXCEPT !.bads = b] : f \in Files, b \in {{}, {"AF3"}}}

InitPipeline ==
    /\ InitSession
    /\ \E r \in PipeRecordings :
           heap = [o \in Obj |-> IF o = 1 THEN r ELSE NullRec]
    /\ \E p \in PipeParams : pin = [raw |-> 1, p |-> p]
    /\ pout = None
    /\ win = <<0, 0, 0>>
    /\ wout = <<>>
    /\ AnalysisIdle

\* the call returns the processed copy
ApplyPipeline ==
    /\ lastOp.op = "none"
    /\ \E out \in {apply_pipeline(heap, pin.raw, pin.p)} :
           /\ heap' = out.heap
           /\ pout' = out.id
    /\ lastOp' = [op |-> "apply_pipeline", arg |-> None, flag |-> FALSE]
    /\ UNCHANGED analysis
    /\ UNCHANGED <<session_state, edf_file, csv_file, pre, ret, pin, win, wout>>

\* an MNE call inside the pipeline raises: nothing is returned and the
\* partly processed copy is dropped
ApplyPipelineRaises ==
    /\ lastOp.op = "none"
    /\ lastOp' = [op |-> "apply_pipeline", arg |-> None, flag |-> TRUE]
    /\ UNCHANGED analysis
    /\ UNCHANGED <<session_state, heap, edf_file, csv_file, pre, ret, pin, pout,
                   win, wout>>

NextPipeline == ApplyPipeline \/ ApplyPipelineRaises

SpecPipeline == InitPipeline /\ [][NextPipeline]_vars

-----------------------------------------------------------------------------
(* restrict_interval as a pure function, on times in ticks of 0.05 s.       *)

\* longest recording, in ticks
MaxTotal == 8

\* how far start and end range below 0 and above the recording's end
Margin == 2

InitWindows ==
    /\ InitSession
    /\ heap = [o \in Obj |-> NullRec]
    /\ pin = [raw |-> None, p |-> NoParams]
    /\ pout = None
    /\ win \in (0..MaxTotal) \X ((0 - Margin)..(MaxTotal + Margin))
                             \X ((0 - Margin)..(MaxTotal + Margin))
    /\ wout = <<>>
    /\ AnalysisIdle

RestrictInterval ==
    /\ lastOp.op = "none"
    /\ wout' = restrict_interval(win[1], win[2], win[3])
    /\ lastOp' = [op |-> "restrict_interval", arg |-> None, flag |-> FALSE]
    /\ UNCHANGED analysis
    /\ UNCHANGED <<session_state, heap, edf_file, csv_file, pre, ret, pin, pout,
                   win>>

NextWindows == RestrictInterval

SpecWindows == InitWindows /\ [][NextWindows]_vars

-----------------------------------------------------------------------------
(* sliding_windows as a generator a consumer drains (list(...) in           *)
(* build_frames).  Times are in units of the tolerance, 1e-9 s, so that the *)
(* tolerance is visible.                                                    *)

\* largest start and end
MaxTime == 3

\* largest step
MaxStep == 2

\* most ticks in an interval handed to build_frames
MaxTick == 10

\* the literal 1e-9 of line 13, in units of 1e-9 s
Tol == 1

\* yielded keeps the first MaxWins windows; with step > 0 no call within the
\* bounds yields more
MaxWins == Max(MaxTime, MaxTick) + 3

InitSliding ==
    /\ InitSession
    /\ PureIdle
    /\ gen \in {sliding_windows(a, b, w, st, Tol) :
                   a \in 0..MaxTime, b \in 0..MaxTime,
                   w \in 0..(MaxTime + 1), st \in 0..MaxStep}
    /\ bf = BfIdle
    /\ em = EmIdle
    /\ mk = MkIdle
    /\ bp = BpIdle
    /\ tw = TwIdle
    /\ rg = RgIdle

\* line 13: the while condition is evaluated
SlidingTest ==
    /\ gen.pc = "test"
    /\ gen' = [gen EXCEPT !.pc = IF sliding_test(gen) THEN "yield" ELSE "done"]
    /\ UNCHANGED <<session_state, heap, edf_file, csv_file, lastOp, pre, ret,
                   pin, pout, win, wout, bf, em, mk, bp, tw, rg>>

\* lines 14-15: yield (t, t + win); t += step
SlidingYield ==
    /\ gen.pc = "yield"
    /\ gen' = [gen EXCEPT
                 !.yielded = IF Len(@) < MaxWins
                             THEN Append(@, <<gen.t, gen.t + gen.win>>) ELSE @,
                 !.t = sliding_advance(gen),
                 !.pc = "test"]
    /\ UNCHANGED <<session_state, heap, edf_file, csv_file, lastOp, pre, ret,
                   pin, pout, win, wout, bf, em, mk, bp, tw, rg>>

NextSliding == SlidingTest \/ SlidingYield

\* the consumer asks for the next window as long as the generator is not
\* exhausted
SpecSliding == InitSliding /\ [][NextSliding]_vars /\ WF_vars(NextSliding)

-----------------------------------------------------------------------------
(* build_frames on an interval inside a recording, times in ticks of 0.05 s *)
(* (the tolerance of sliding_windows is below a tick).                      *)

FrameRates == {64, 128, 256}

FrameSteps == {0, 2, 5}

\* pmin, pmax: the defaults and a degenerate pair
FramePercentiles == {<<5, 95>>, <<50, 50>>}

FrameSignals == {"flat", "rising"}

InitFrames ==
    /\ InitSession
    /\ PureIdle
    /\ gen = GenIdle
    /\ bf \in {[BfIdle EXCEPT !.sfreq = sf, !.start = a, !.end = b,
                              !.win_len = w, !.step = st, !.pc = "check",
                              !.pmin = pc[1], !.pmax = pc[2], !.signal = sg] :
                  sf \in FrameRates, a \in {0, 1}, b \in 0..MaxTick,
                  w \in 1..(MaxTick + 1), st \in FrameSteps,
                  pc \in FramePercentiles, sg \in FrameSignals}
    /\ em = EmIdle
    /\ mk = MkIdle
    /\ bp = BpIdle
    /\ tw = TwIdle
    /\ rg = RgIdle

\* lines 14-16: the interval check, then the generator is created
BuildFramesCheck ==
    /\ bf.pc = "check"
    /\ IF bf.end - bf.start < MinWidth
       THEN /\ bf' = [bf EXCEPT !.pc = "returned", !.result = "none"]
            /\ gen' = gen
       ELSE /\ bf' = [bf EXCEPT !.pc = "listing"]
            /\ gen' = sliding_windows(bf.start, bf.end, bf.win_len, bf.step, 0)
    /\ UNCHANGED <<session_state, heap, edf_file, csv_file, lastOp, pre, ret,
                   pin, pout, win, wout, em, mk, bp, tw, rg>>

\* line 16: the generator is exhausted, wins is the list or the fallback
BuildFramesList ==
    /\ bf.pc = "listing"
    /\ gen.pc = "done"
    /\ bf' = [bf EXCEPT !.pc = "loop", !.i = 1,
                        !.wins = frame_windows(gen.yielded, bf.start, bf.end)]
    /\ UNCHANGED <<session_state, heap, edf_file, csv_file, lastOp, pre, ret,
                   pin, pout, win, wout, gen, em, mk, bp, tw, rg>>

\* lines 17-25: one iteration of the loop; an exception leaves the function
BuildFramesWindow ==
    /\ bf.pc = "loop"
    /\ bf.i <= Len(bf.wins)
    /\ \E finite \in BOOLEAN :
         \E out \in {frame_outcome(bf.sfreq, bf.wins[bf.i], finite)} :
           bf' = IF out = "raises"
                 THEN [bf EXCEPT !.pc = "raised", !.result = "exception"]
                 ELSE IF out = "kept"
                 THEN [keep_frame(bf, bf.wins[bf.i],
                                  segment_power(bf.signal, bf.wins[bf.i]))
                          EXCEPT !.i = @ + 1]
                 ELSE [bf EXCEPT !.i = @ + 1]
    /\ UNCHANGED <<session_state, heap, edf_file, csv_file, lastOp, pre, ret,
                   pin, pout, win, wout, gen, em, mk, bp, tw, rg>>

\* lines 26-33: the none-triple if nothing was kept, else the frames
BuildFramesReturn ==
    /\ bf.pc = "loop"
    /\ bf.i > Len(bf.wins)
    /\ bf' = IF bf.vals = <<>>
             THEN [bf EXCEPT !.pc = "returned", !.result = "none"]
             ELSE [bf EXCEPT !.pc = "returned", !.result = "frames",
                             !.vm = colour_range(bf.vals, bf.pmin, bf.pmax)]
    /\ UNCHANGED <<session_state, heap, edf_file, csv_file, lastOp, pre, ret,
                   pin, pout, win, wout, gen, em, mk, bp, tw, rg>>

NextFrames ==
    \/ BuildFramesCheck
    \/ SlidingTest
    \/ SlidingYield
    \/ BuildFramesList
    \/ BuildFramesWindow
    \/ BuildFramesReturn

SpecFrames == InitFrames /\ [][NextFrames]_vars

-----------------------------------------------------------------------------
(* Marker import as a pure function of the recording's length T, its events *)
(* and the rows of the file; times are whole seconds.                       *)

\* longest recording, in seconds
MaxLength == 3

\* the files: at most two rows or marks each
SeqsUpTo2(S) ==
    {<<>>} \cup {<<x>> : x \in S} \cup {<<x, y>> : x \in S, y \in S}

CsvRowValues == ((0 - 1)..(MaxLength + 1)) \X ((0 - 1)..(MaxLength + 1))

JsonMarkValues == (0..MaxLength) \X (0..(MaxLength + 1))

EventsBefore == { <<>>, << <<0, 1>> >> }

InitMarkers ==
    /\ InitSession
    /\ PureIdle
    /\ gen = GenIdle
    /\ bf = BfIdle
    /\ em = EmIdle
    /\ bp = BpIdle
    /\ tw = TwIdle
    /\ rg = RgIdle
    /\ \/ mk \in {[MkIdle EXCEPT !.kind = "csv", !.T = T, !.rows = rows,
                                 !.columns = cols, !.before = ev,
                                 !.events = ev] :
                     T \in 1..MaxLength, rows \in SeqsUpTo2(CsvRowValues),
                     cols \in BOOLEAN, ev \in EventsBefore}
       \/ mk \in {[MkIdle EXCEPT !.kind = "json", !.T = T, !.marks = marks,
                                 !.base_orig = org, !.before = ev,
                                 !.events = ev] :
                     T \in 1..MaxLength, marks \in SeqsUpTo2(JsonMarkValues),
                     org \in {None, 1}, ev \in EventsBefore}

AddCsvMarkers ==
    /\ mk.kind = "csv"
    /\ mk.ret = None
    /\ \E out \in {add_csv_marker_rows(mk.events, mk.T, mk.rows, mk.columns)} :
           mk' = [mk EXCEPT !.events = out.annotations, !.ret = out.ret]
    /\ UNCHANGED <<session_state, heap, edf_file, csv_file, lastOp, pre, ret,
                   pin, pout, win, wout, gen, bf, em, bp, tw, rg>>

AddJsonMarkers ==
    /\ mk.kind = "json"
    /\ mk.ret = None
    /\ \E out \in {add_json_markers(mk.events, mk.T, mk.marks, mk.base_orig)} :
           mk' = [mk EXCEPT !.events = out.annotations, !.ret = out.ret,
                            !.rows = IF mk.marks = <<>> THEN <<>>
                                     ELSE json_rows(mk.marks, mk.base_orig)]
    /\ UNCHANGED <<session_state, heap, edf_file, csv_file, lastOp, pre, ret,
                   pin, pout, win, wout, gen, bf, em, bp, tw, rg>>

NextMarkers == AddCsvMarkers \/ AddJsonMarkers

SpecMarkers == InitMarkers /\ [][NextMarkers]_vars

-----------------------------------------------------------------------------
(* Epoch construction: the ERP panel calls create_epochs_from_labels on the *)
(* session's recording, whose annotations are fixed here; the manager is    *)
(* replaced by a new one whenever main() builds a new panel.                *)

\* the conditions the panel can ask for
RequestLabels == {"A", "B", "C"}

\* the annotation labels of the recording: at most two annotations
AnnotationLists == SeqsUpTo2(Labels)

\* the session holds a raw recording, with or without processed data
SessionsWithRaw ==
    {raw_data_setter(_initialize_session_state(EmptyStore), 1),
     filter_applied_setter(processed_data_setter(
         raw_data_setter(_initialize_session_state(EmptyStore), 1), 2), TRUE)}

InitEpochs ==
    /\ session_state \in SessionsWithRaw
    /\ edf_file = "a.edf"
    /\ csv_file = NoName
    /\ lastOp = NoOp
    /\ pre = session_state
    /\ ret = None
    /\ \E a \in AnnotationLists :
         /\ em = [EmIdle EXCEPT !.annotations = a]
         /\ heap = GC([o \in Obj |-> [read_raw_edf("a.edf") EXCEPT !.annots = Len(a)]],
                      session_state)
    /\ pin = [raw |-> None, p |-> NoParams]
    /\ pout = None
    /\ win = <<0, 0, 0>>
    /\ wout = <<>>
    /\ gen = GenIdle
    /\ bf = BfIdle
    /\ mk = MkIdle
    /\ bp = BpIdle
    /\ tw = TwIdle
    /\ rg = RgIdle

\* EpochManager(): VisualizationPanelComponent.__init__
NewEpochManager ==
    /\ em' = [em EXCEPT !.mgr = EmNew, !.before = em.mgr, !.called = FALSE,
                        !.labels_to_use = {}, !.dropped = 0, !.epochs = None,
                        !.event_id = NoMap, !.error = NoError]
    /\ lastOp' = [op |-> "EpochManager", arg |-> None, flag |-> FALSE]
    /\ pre' = session_state
    /\ UNCHANGED <<session_state, heap, edf_file, csv_file, ret, pin, pout,
                   win, wout, gen, bf, mk, bp, tw, rg>>

CreateEpochs ==
    \E labels \in SUBSET RequestLabels \cup {{"BAD_seg"}},
       dropped \in 0..MaxAnnot, raises \in {"no", "events", "epochs"} :
      \E out \in {create_epochs_from_labels(em.mgr, em.annotations, labels,
                                            dropped, raises)} :
        /\ em' = [em EXCEPT !.mgr = out.mgr, !.before = em.mgr,
                            !.called = TRUE, !.labels_to_use = labels,
                            !.dropped = dropped, !.epochs = out.epochs,
                            !.event_id = out.event_id, !.error = out.error]
        /\ lastOp' = [op |-> "create_epochs_from_labels", arg |-> None,
                      flag |-> raises # "no"]
        /\ pre' = session_state
        /\ UNCHANGED <<session_state, heap, edf_file, csv_file, ret, pin, pout,
                       win, wout, gen, bf, mk, bp, tw, rg>>

NextEpochs == NewEpochManager \/ CreateEpochs

SpecEpochs == InitEpochs /\ [][NextEpochs]_vars

-----------------------------------------------------------------------------
(* bandpower_mean on the sine recordings of tests/conftest.py:              *)
(* make_raw_sine(freq, sfreq, secs) has int(sfreq * secs) samples.          *)

SineRates == {64, 128, 256}

\* secs, in tenths of a second
SineTenths == {1, 2, 5, 50}

\* <<fmin, fmax>>
SineBands == {<<8, 13>>, <<9, 11>>, <<4, 8>>}

\* <<sfreq, secs, freq, band>> with freq strictly inside the band
SineCalls ==
    {c \in SineRates \X SineTenths \X (5..12) \X SineBands :
        c[4][1] < c[3] /\ c[3] < c[4][2]}

InitBandpower ==
    /\ InitSession
    /\ PureIdle
    /\ gen = GenIdle
    /\ bf = BfIdle
    /\ em = EmIdle
    /\ mk = MkIdle
    /\ tw = TwIdle
    /\ rg = RgIdle
    /\ bp \in {[BpIdle EXCEPT !.sfreq = c[1], !.n_times = (c[1] * c[2]) \div 10,
                              !.freq = c[3], !.fmin = c[4][1],
                              !.fmax = c[4][2]] : c \in SineCalls}

BandpowerMean ==
    /\ bp.result = "not_called"
    /\ bp' = [bp EXCEPT !.result = bandpower_mean(bp.n_times, bp.sfreq,
                                                  bp.fmin, bp.fmax),
                        !.mean_psd = <<bands_nfft(bp.n_times),
                                       bands_noverlap(bp.n_times)>>]
    /\ UNCHANGED <<session_state, heap, edf_file, csv_file, lastOp, pre, ret,
                   pin, pout, win, wout, gen, bf, em, mk, tw, rg>>

\* bandpower_segment on the same recording (its samples are finite)
BandpowerSegment ==
    /\ bp.seg_result = "not_called"
    /\ bp' = [bp EXCEPT !.seg_result = bandpower_segment(bp.n_times, TRUE),
                        !.seg_psd = <<welch_nfft(bp.n_times),
                                      welch_noverlap(bp.n_times)>>]
    /\ UNCHANGED <<session_state, heap, edf_file, csv_file, lastOp, pre, ret,
                   pin, pout, win, wout, gen, bf, em, mk, tw, rg>>

NextBandpower == BandpowerMean \/ BandpowerSegment

SpecBandpower == InitBandpower /\ [][NextBandpower]_vars

-----------------------------------------------------------------------------
(* validate_time_window on recordings of a few lengths, with requests below *)
(* zero, inside the recording, at its last sample and beyond it.            *)

TwRates == {128, 256}

\* sample counts: a single sample, two, one second, ten seconds at 128 Hz
TwSamples == {1, 2, 128, 1280}

\* requested times for a recording of n samples
TwTimes(n) ==
    {0 - 10, 0, 5 * (n - 1), 10 * (n - 1), 10 * n - 5, 10 * n, 10 * n + 10}

InitTimeWindow ==
    /\ InitSession
    /\ PureIdle
    /\ gen = GenIdle
    /\ bf = BfIdle
    /\ em = EmIdle
    /\ mk = MkIdle
    /\ bp = BpIdle
    /\ rg = RgIdle
    /\ \E sf \in TwRates, n \in TwSamples :
          \E a \in TwTimes(n), b \in TwTimes(n) :
             tw = [TwIdle EXCEPT !.n = n, !.sfreq = sf, !.start = a, !.end = b]

\* main, line 132: the window is validated and corrected
ValidateTimeWindow ==
    /\ tw.result = <<>>
    /\ tw' = [tw EXCEPT !.result = validate_time_window(tw.n, tw.sfreq,
                                                       tw.start, tw.end)]
    /\ UNCHANGED <<session_state, heap, edf_file, csv_file, lastOp, pre, ret,
                   pin, pout, win, wout, gen, bf, em, mk, bp, rg>>

NextTimeWindow == ValidateTimeWindow

SpecTimeWindow == InitTimeWindow /\ [][NextTimeWindow]_vars

-----------------------------------------------------------------------------
(* The regional bars on recordings whose channels are any arrangement of a  *)
(* few names, one of them in no region, with any of them marked bad.        *)

RegionalChannels == {"AF3", "T7", "O1", "CZ"}

\* the sequences without repetition over S
ChannelLists(S) ==
    UNION {{ s \in [1..n -> S] : \A i, j \in 1..n : s[i] = s[j] => i = j } :
              n \in 0..Cardinality(S)}

InitRegional ==
    /\ InitSession
    /\ PureIdle
    /\ gen = GenIdle
    /\ bf = BfIdle
    /\ em = EmIdle
    /\ mk = MkIdle
    /\ bp = BpIdle
    /\ tw = TwIdle
    /\ \E chs \in ChannelLists(RegionalChannels) :
          \E bads \in SUBSET Range(chs) :
             rg = [RgIdle EXCEPT !.ch_names = chs, !.bads = bads]

\* main, lines 143-147: the picks; without picks nothing is rendered
PickChannels ==
    /\ rg.status = "not_called"
    /\ rg' = [rg EXCEPT !.picks = pick_types(rg.ch_names, rg.bads),
                        !.status = IF pick_types(rg.ch_names, rg.bads) = <<>>
                                   THEN "no_picks" ELSE "picked"]
    /\ UNCHANGED <<session_state, heap, edf_file, csv_file, lastOp, pre, ret,
                   pin, pout, win, wout, gen, bf, em, mk, bp, tw>>

\* _render_regional_bars, lines 280-286: band power over the picks, then
\* region_means over the segment's channel names
RenderRegionalBars ==
    /\ rg.status = "picked"
    /\ \E out \in {region_means(rg.ch_names,
                                 picked_power(rg.ch_names, rg.picks))} :
          rg' = [rg EXCEPT !.values = picked_power(rg.ch_names, rg.picks),
                           !.status = out.status, !.bars = out.bars]
    /\ UNCHANGED <<session_state, heap, edf_file, csv_file, lastOp, pre, ret,
                   pin, pout, win, wout, gen, bf, em, mk, bp, tw>>

NextRegional == PickChannels \/ RenderRegionalBars

SpecRegional == InitRegional /\ [][NextRegional]_vars

-----------------------------------------------------------------------------
(* Properties *)

\* C1: assigning a non-None recording to raw_data, from any session state,
\* leaves processed data absent and the filter-applied flag false, and
\* get_current_data() then returns exactly the recording assigned.
C1_RawAssignmentResets ==
    (lastOp.op = "raw_data" /\ lastOp.arg # None) =>
        /\ processed_data(session_state) = None
        /\ filter_applied(session_state) = FALSE
        /\ get_current_data(session_state) = lastOp.arg

\* a new recording was assigned while processed data was held and the flag
\* was true
C1_Witness ==
    /\ lastOp.op = "raw_data"
    /\ lastOp.arg # None
    /\ processed_data(pre) # None
    /\ filter_applied(pre)
    /\ raw_data(pre) # None
    /\ raw_data(pre) # lastOp.arg
    /\ raw_data(session_state) = lastOp.arg

\* C2: whenever an operation replaces the raw recording by a different value
\* (another recording or none), a processed recording held before the
\* operation is no longer held after it.
C2_ProcessedDroppedWhenRawChanges ==
    (raw_data(session_state) # raw_data(pre) /\ processed_data(pre) # None) =>
        processed_data(session_state) # processed_data(pre)

\* the three states of the session's lifecycle
NoData(ss) ==
    raw_data(ss) = None /\ processed_data(ss) = None /\ ~filter_applied(ss)

RawLoaded(ss) ==
    raw_data(ss) # None /\ processed_data(ss) = None /\ ~filter_applied(ss)

RawLoadedProcessed(ss) ==
    raw_data(ss) # None /\ processed_data(ss) # None /\ filter_applied(ss)

\* C3: every state reachable through the public operations is one of
\* no-data, raw-loaded, raw-loaded+processed.
C3_ThreeStates ==
    \/ NoData(session_state)
    \/ RawLoaded(session_state)
    \/ RawLoadedProcessed(session_state)

\* C4: get_current_data() returns the processed recording if one is held,
\* otherwise the raw recording, none only when neither is held, and leaves
\* the session state as it was.
C4_CurrentDataIsProcessedElseRaw ==
    lastOp.op = "get_current_data" =>
        /\ processed_data(pre) # None => ret = processed_data(pre)
        /\ processed_data(pre) = None => ret = raw_data(pre)
        /\ ret = None <=> (processed_data(pre) = None /\ raw_data(pre) = None)
        /\ session_state = pre

\* get_current_data() was called with both recordings held and returned the
\* processed one
C4_Witness ==
    /\ lastOp.op = "get_current_data"
    /\ raw_data(pre) # None
    /\ processed_data(pre) # None
    /\ processed_data(pre) # raw_data(pre)
    /\ ret = processed_data(pre)

\* C5: a rerun in which Apply Filters is pressed on a loaded recording and
\* validation reports no errors ends with processed data held, the flag
\* true, and the same raw recording object held as before the rerun.
C5_ApplyKeepsRawAndSetsProcessed ==
    (/\ lastOp.op = "main"
     /\ lastOp.apply
     /\ lastOp.ran
     /\ raw_data(pre) # None) =>
        /\ processed_data(session_state) # None
        /\ filter_applied(session_state)
        /\ raw_data(session_state) = raw_data(pre)

\* C6: a rerun in which Apply Filters is pressed and validation reports an
\* error does not run the pipeline and leaves the raw recording, the
\* processed recording and the flag as they were before the rerun.
C6_ValidationErrorLeavesSession ==
    (/\ lastOp.op = "main"
     /\ lastOp.apply
     /\ lastOp.errors # <<>>) =>
        /\ ~lastOp.ran
        /\ raw_data(session_state) = raw_data(pre)
        /\ processed_data(session_state) = processed_data(pre)
        /\ filter_applied(session_state) = filter_applied(pre)

\* what every reader of the session sees in the no-data state
NoDataView(ss) ==
    /\ raw_data(ss) = None
    /\ processed_data(ss) = None
    /\ filter_applied(ss) = FALSE
    /\ get_current_data(ss) = None

\* C7: clear_session() leads to the no-data state from any state, and the
\* session still reads as no-data after a new SessionManager is constructed
\* on the cleared store.
C7_ClearLeadsToNoData ==
    /\ lastOp.op = "clear_session" => NoDataView(session_state)
    /\ (lastOp.op = "__init__" /\ pre.has = {}) => NoDataView(session_state)

\* a session holding raw, processed and a true flag was cleared
C7_Witness ==
    /\ lastOp.op = "clear_session"
    /\ raw_data(pre) # None
    /\ processed_data(pre) # None
    /\ filter_applied(pre)
    /\ session_state.has = {}

\* every parameter set the check of apply_pipeline's frame ranges over: the
\* widget values and the call with every step disabled
FrameParams == UiParams \cup {NoParams}

\* apply_pipeline, called in this state on the held raw recording, returns an
\* object no reference names yet and leaves every existing recording as it is
PipelineReturnsFreshCopy ==
    \A p \in FrameParams :
        LET out == apply_pipeline(heap, raw_data(session_state), p)
        IN  /\ out.id # raw_data(session_state)
            /\ heap[out.id] = NullRec
            /\ \A o \in Obj : o # out.id => out.heap[o] = heap[o]
            /\ p = NoParams => out.heap[out.id] = heap[raw_data(session_state)]

\* C8: apply_pipeline never mutates its input and returns a fresh recording
\* even with every step disabled; in every state of the application the
\* processed recording is an object other than raw, and a rerun that keeps
\* the processed recording leaves its content unchanged whatever it does to
\* raw in place.
C8_ProcessedNeverAliasesRaw ==
    /\ [](raw_data(session_state) # None =>
            /\ processed_data(session_state) # raw_data(session_state)
            /\ PipelineReturnsFreshCopy)
    /\ [][(/\ processed_data(session_state) # None
           /\ processed_data(session_state') = processed_data(session_state))
          => heap'[processed_data(session_state)]
                 = heap[processed_data(session_state)]]_vars

\* processed data is held and raw was picked down to fewer channels, in
\* place, after the filters were applied
C8_Witness ==
    /\ raw_data(session_state) # None
    /\ processed_data(session_state) # None
    /\ lastOp.op = "main"
    /\ ~lastOp.ran
    /\ ~lastOp.reloaded
    /\ heap[raw_data(session_state)].ch_names
           # heap[processed_data(session_state)].ch_names

\* the rate in force when the band filter was applied, and the cutoff given
HalfRate == heap[pout].sfreq \div 2

HighRequested ==
    /\ pout # None
    /\ pin.p.h_freq # None
    /\ 2 * pin.p.h_freq >= heap[pout].sfreq

\* C9 as stated: with h_freq >= sf/2 the pipeline never produces a filter
\* cutoff >= sf/2 - 1.0 (sf the rate after any resampling).
C9_CutoffBelowClamp ==
    (HighRequested /\ heap[pout].hf # None) => ~(heap[pout].hf >= HalfRate - 1)

\* C9 as amended: with h_freq >= sf/2 the band filter is applied with a
\* cutoff that never exceeds sf/2 - 1.0; it is exactly sf/2 - 1.0.
C9_CutoffAtClamp ==
    HighRequested =>
        /\ heap[pout].hf # None
        /\ heap[pout].hf <= HalfRate - 1
        /\ heap[pout].hf = HalfRate - 1

\* a call that resampled and was asked for a cutoff at or above the new
\* Nyquist frequency
C9_Witness ==
    /\ HighRequested
    /\ heap[pout].sfreq # heap[pin.raw].sfreq
    /\ heap[pout].steps = <<"resample", "filter">>
    /\ pin.p.h_freq < heap[pin.raw].sfreq \div 2 - 1
    /\ heap[pout].hf = HalfRate - 1

\* a recording so short that no window of the minimum width fits
ApproxZero(total) == total < MinWidth

\* C10: restrict_interval(total, start, end) returns (s, e) within
\* [0, total] with e > s; e = s only when total is approximately 0.
C10_WindowInsideAndNonEmpty ==
    wout # <<>> =>
        /\ 0 <= wout[1] /\ wout[1] <= win[1]
        /\ 0 <= wout[2] /\ wout[2] <= win[1]
        /\ wout[2] >= wout[1]
        /\ wout[2] = wout[1] => ApproxZero(win[1])

\* C11: sliding_windows produces a finite sequence for every choice of
\* arguments: a consumer that keeps asking for the next window eventually
\* finds the generator exhausted.
C11_SlidingWindowsTerminates ==
    <>(gen.pc = "done")

\* the number of k >= 0 with start + k*step + win <= end + tol
NumFit(g) ==
    IF g.start + g.win > g.end + g.tol THEN 0
    ELSE (g.end + g.tol - g.win - g.start) \div g.step + 1

\* the windows of an exhausted generator are start + k*step, k = 0, 1, ...,
\* each of width win, in increasing order
YieldedAreTheGrid ==
    \A k \in 1..Len(gen.yielded) :
        gen.yielded[k] = <<gen.start + (k - 1) * gen.step,
                           gen.start + (k - 1) * gen.step + gen.win>>

\* C20 as stated: for step > 0 the generator yields exactly the windows
\* (start + k*step, start + k*step + win), k = 0, 1, ..., in order, each of
\* width win and inside [start, end], omits none that fits, and yields
\* nothing if win > end - start.
C20_WindowsInsideInterval ==
    (gen.pc = "done" /\ gen.step > 0) =>
        /\ YieldedAreTheGrid
        /\ \A k \in 1..Len(gen.yielded) :
               gen.start <= gen.yielded[k][1] /\ gen.yielded[k][2] <= gen.end
        /\ \A k \in 0..(MaxTime + 1) :
               gen.start + k * gen.step + gen.win <= gen.end
                   => k < Len(gen.yielded)
        /\ gen.win > gen.end - gen.start => gen.yielded = <<>>

\* C20 as amended: the same, with the tolerance in the bound: each window
\* lies inside [start, end + 1e-9], none with start + k*step + win
\* <= end + 1e-9 is omitted, and nothing is yielded if
\* win > end - start + 1e-9.
C20_WindowsWithinTolerance ==
    (gen.pc = "done" /\ gen.step > 0) =>
        /\ YieldedAreTheGrid
        /\ Len(gen.yielded) = NumFit(gen)
        /\ \A k \in 1..Len(gen.yielded) :
               /\ gen.start <= gen.yielded[k][1]
               /\ gen.yielded[k][2] <= gen.end + gen.tol
               /\ gen.yielded[k][2] - gen.yielded[k][1] = gen.win
        /\ \A k \in 0..(MaxTime + 1) :
               gen.start + k * gen.step + gen.win <= gen.end + gen.tol
                   => k < Len(gen.yielded)
        /\ gen.win > gen.end - gen.start + gen.tol => gen.yielded = <<>>

\* an exhausted generator that yielded several windows, the last of them
\* ending within the tolerance past end
C20_Witness ==
    /\ gen.pc = "done"
    /\ gen.step > 0
    /\ gen.tol = Tol
    /\ Len(gen.yielded) >= 3
    /\ gen.yielded[Len(gen.yielded)][2] = gen.end + gen.tol
    /\ gen.win > 0

\* the call is over: it returned or an exception left it
BuildFramesOver == bf.pc \in {"returned", "raised"}

\* C12: build_frames returns the none-triple whenever end - start < 0.25;
\* whenever end - start >= 0.25 and win_len > end - start it returns exactly
\* one frame, whose window is (start, end).
C12_NoneOrSingleFallbackFrame ==
    BuildFramesOver =>
        /\ bf.end - bf.start < MinWidth => bf.result = "none"
        /\ (bf.end - bf.start >= MinWidth /\ bf.win_len > bf.end - bf.start)
               => /\ bf.result = "frames"
                  /\ bf.meta = << <<bf.start, bf.end>> >>

\* C13: a failing window never aborts build_frames: it is dropped and every
\* other window is still processed; the result is the none-triple exactly
\* when no window survives, and otherwise the frames.
C13_FailingWindowIsDropped ==
    /\ bf.pc # "raised"
    /\ (bf.pc = "returned" /\ bf.end - bf.start >= MinWidth) =>
           /\ bf.i = Len(bf.wins) + 1
           /\ bf.result = "none" <=> bf.meta = <<>>
           /\ bf.meta # <<>> => bf.result = "frames"

\* the rows that are to become events: d > 0, o < T and
\* min(T, o + d) - max(0, o) > 0
RowIsAdded(T, r) ==
    r[2] > 0 /\ r[1] < T /\ Min(T, r[1] + r[2]) - Max(0, r[1]) > 0

\* the events an import appended to those the recording had
AddedEvents == SubSeq(mk.events, Len(mk.before) + 1, Len(mk.events))

\* C16: a CSV or JSON import adds a row (o, d) if and only if d > 0, o < T
\* and min(T, o + d) - max(0, o) > 0; every event added has onset >= 0,
\* duration > 0 and onset + duration <= T; the value returned is the number
\* of events added (0 when every onset is beyond the recording).
C16_RowsAddedAndClipped ==
    (mk.ret # None /\ mk.columns) =>
        /\ SubSeq(mk.events, 1, Len(mk.before)) = mk.before
        /\ Len(AddedEvents)
               = Cardinality({i \in 1..Len(mk.rows) : RowIsAdded(mk.T, mk.rows[i])})
        /\ \A i \in 1..Len(AddedEvents) :
               /\ AddedEvents[i][1] >= 0
               /\ AddedEvents[i][2] > 0
               /\ AddedEvents[i][1] + AddedEvents[i][2] <= mk.T
        /\ mk.ret = Len(AddedEvents)
        /\ (\A i \in 1..Len(mk.rows) : mk.rows[i][1] >= mk.T) => mk.ret = 0

\* an import of two rows into a recording that had an event: one row beyond
\* the recording's end is dropped, the other is cut at the end
C16_Witness ==
    /\ mk.ret = 1
    /\ mk.before # <<>>
    /\ Len(mk.rows) = 2
    /\ mk.rows[1][1] >= mk.T
    /\ mk.rows[2][1] + mk.rows[2][2] > mk.T
    /\ AddedEvents = << <<mk.rows[2][1], mk.T - mk.rows[2][1]>> >>

\* C17: importing the same marker file into the same recording again, as
\* every rerun does while the file stays uploaded, leaves the recording's
\* events as they were after the first import (annots is the length of the
\* event list).
C17_ReimportKeepsEvents ==
    [][(/\ csv_file # NoName
        /\ csv_file' = csv_file
        /\ raw_data(session_state) # None
        /\ raw_data(session_state') = raw_data(session_state)
        /\ heap[raw_data(session_state)].annots >= csv_rows(csv_file))
       => heap'[raw_data(session_state)].annots
              = heap[raw_data(session_state)].annots]_vars

\* the labels among the recording's annotations
AnnotationLabels == {em.annotations[i] : i \in 1..Len(em.annotations)}

\* the annotations carrying a requested label
RequestedAnnotations ==
    {i \in 1..Len(em.annotations) : em.annotations[i] \in em.labels_to_use}

\* C14: create_epochs_from_labels never returns an empty success: with no
\* error the epoch set has at least one epoch and the label map is
\* non-empty and has requested labels only; with no annotations, or none
\* carrying a requested label, or no epoch surviving, epochs and map are
\* none and the error is set.
C14_NoEmptySuccess ==
    em.called =>
        /\ em.error = NoError =>
               /\ em.epochs # None
               /\ em.epochs >= 1
               /\ em.event_id # NoMap
               /\ em.event_id # {}
               /\ \A pr \in em.event_id : pr[1] \in em.labels_to_use
        /\ (\/ em.annotations = <<>>
            \/ AnnotationLabels \cap em.labels_to_use = {}
            \/ Cardinality(RequestedAnnotations) <= em.dropped) =>
               /\ em.epochs = None
               /\ em.event_id = NoMap
               /\ em.error # NoError

\* a successful call for one of the recording's two labels, and one for
\* which every epoch was rejected
C14_Witness ==
    /\ em.called
    /\ em.error = NoError
    /\ em.epochs = 1
    /\ Cardinality(AnnotationLabels) = 2
    /\ Cardinality(em.event_id) = 1
    /\ em.labels_to_use # AnnotationLabels

\* C15: a failed epoch construction leaves the manager's last_epochs and
\* last_event_id, and the session's raw recording, processed recording and
\* flag, as they were before the call.
C15_FailureLeavesState ==
    (em.called /\ em.error # NoError) =>
        /\ em.mgr.last_epochs = em.before.last_epochs
        /\ em.mgr.last_event_id = em.before.last_event_id
        /\ raw_data(session_state) = raw_data(pre)
        /\ processed_data(session_state) = processed_data(pre)
        /\ filter_applied(session_state) = filter_applied(pre)

\* a call that failed because no epoch survived, on a manager that
\* remembered the epochs of an earlier call, in a session with processed data
C15_Witness ==
    /\ em.called
    /\ em.error = "no_valid_epochs"
    /\ em.before.last_epochs # None
    /\ em.mgr = em.before
    /\ processed_data(session_state) # None

\* C18: for every sine recording at a frequency strictly inside
\* [fmin, fmax], the band-power estimator returns a finite, strictly
\* positive value for every channel.
C18_BandpowerPositive ==
    bp.result # "not_called" => bp.result = "positive"

\* the fixed order of the pipeline's steps
PipelineOrder == <<"resample", "notch", "filter", "interpolate", "reference">>

\* whether the parameters of a call enable a step on the input recording
StepEnabled(step) ==
    CASE step = "resample" ->
             /\ pin.p.resample # None
             /\ pin.p.resample # 0
             /\ pin.p.resample # heap[pin.raw].sfreq
      [] step = "notch" -> pin.p.notch # None
      [] step = "filter" -> pin.p.l_freq # None \/ pin.p.h_freq # None
      [] step = "interpolate" -> pin.p.interpolate /\ heap[pin.raw].bads # {}
      [] step = "reference" -> pin.p.ref_avg

\* the sampling rate after the resampling step
RateAfterResample ==
    IF StepEnabled("resample") THEN pin.p.resample ELSE heap[pin.raw].sfreq

\* C19: for every combination of parameters apply_pipeline runs exactly the
\* enabled steps, in the order resample, notch, band filter, interpolation,
\* average reference, each step depending on its own parameter only, and
\* the cutoff is clamped against the rate in force after resampling.
C19_StepsInFixedOrder ==
    pout # None =>
        /\ heap[pout].steps = SelectSeq(PipelineOrder, StepEnabled)
        /\ heap[pout].sfreq = RateAfterResample
        /\ StepEnabled("filter") =>
               /\ heap[pout].hf <= RateAfterResample \div 2 - 1
               /\ (pin.p.h_freq \in {None, 0}
                      \/ pin.p.h_freq >= RateAfterResample \div 2 - 1)
                     => heap[pout].hf = RateAfterResample \div 2 - 1
               /\ (pin.p.h_freq \notin {None, 0}
                      /\ pin.p.h_freq < RateAfterResample \div 2 - 1)
                     => heap[pout].hf = pin.p.h_freq
        /\ ~StepEnabled("filter") => heap[pout].hf = None

\* a call that ran all five steps, with a cutoff the old rate would have
\* allowed and the new rate does not
C19_Witness ==
    /\ pout # None
    /\ heap[pout].steps = PipelineOrder
    /\ heap[pout].sfreq < heap[pin.raw].sfreq
    /\ pin.p.h_freq < heap[pin.raw].sfreq \div 2 - 1
    /\ heap[pout].hf = heap[pout].sfreq \div 2 - 1
    /\ heap[pout].hf < pin.p.h_freq

\* s is a subsequence of t: its elements appear in t in the same order
RECURSIVE IsSubSeq(_, _)
IsSubSeq(s, t) ==
    IF s = <<>> THEN TRUE
    ELSE IF t = <<>> THEN FALSE
    ELSE IF Head(s) = Head(t) THEN IsSubSeq(Tail(s), Tail(t))
    ELSE IsSubSeq(s, Tail(t))

\* C21: whenever build_frames succeeds, the frames and the window list have
\* the same length, frame i is the band power of window i, the windows are
\* a subsequence of the enumerated windows with strictly increasing start
\* times, and the colour range has vmin < vmax: the percentiles or, when
\* they are degenerate, the overall min and max, nudged apart symmetrically
\* when equal.
C21_FramesMatchWindows ==
    (bf.pc = "returned" /\ bf.result = "frames") =>
        /\ Len(bf.vals) = Len(bf.meta)
        /\ Len(bf.vals) >= 1
        /\ \A i \in 1..Len(bf.meta) :
               bf.vals[i] = segment_power(bf.signal, bf.meta[i])
        /\ IsSubSeq(bf.meta, bf.wins)
        /\ \A i \in 1..(Len(bf.meta) - 1) : bf.meta[i][1] < bf.meta[i + 1][1]
        /\ bf.vm[1] < bf.vm[2]
        /\ LET lo == percentile(bf.vals, bf.pmin)
               hi == percentile(bf.vals, bf.pmax)
               mn == Nudge * frames_min(bf.vals)
               mx == Nudge * frames_max(bf.vals)
           IN  /\ lo < hi => bf.vm = <<lo, hi>>
               /\ (lo >= hi /\ mn < mx) => bf.vm = <<mn, mx>>
               /\ (lo >= hi /\ mn = mx) =>
                      /\ bf.vm[2] - bf.vm[1] = 2 * Nudge
                      /\ bf.vm[1] + bf.vm[2] = mn + mx

\* several frames of equal power were kept, one window was skipped, and the
\* degenerate percentiles were replaced by the nudged min and max
C21_Witness ==
    /\ bf.pc = "returned"
    /\ bf.result = "frames"
    /\ Len(bf.meta) >= 2
    /\ Len(bf.meta) < Len(bf.wins)
    /\ frames_min(bf.vals) = frames_max(bf.vals)
    /\ bf.vm[1] < bf.vm[2]

\* C22: for every segment of n >= 1 samples, bandpower_mean and
\* bandpower_segment choose the same FFT window length max(64, min(512, n))
\* and the same overlap, half the window length rounded down, which is
\* strictly smaller than the window length.
C22_SameWindowAndOverlap ==
    (bp.result # "not_called" /\ bp.seg_result # "not_called"
        /\ bp.n_times >= 1) =>
        /\ bp.mean_psd = bp.seg_psd
        /\ bp.seg_psd[1] = Max(64, Min(512, bp.n_times))
        /\ 2 * bp.seg_psd[2] <= bp.seg_psd[1]
        /\ bp.seg_psd[1] < 2 * bp.seg_psd[2] + 2
        /\ bp.seg_psd[2] < bp.seg_psd[1]

\* both estimators were called on a segment shorter than 64 samples
C22_Witness ==
    /\ bp.result # "not_called"
    /\ bp.seg_result # "not_called"
    /\ bp.n_times >= 1
    /\ bp.n_times < 64
    /\ bp.mean_psd = <<64, 32>>

\* the last rerun got past the filter step with a raw recording held
ReachedAnalysis ==
    /\ lastOp.op = "main"
    /\ lastOp.stage \in {"done", "no_current_data"}
    /\ raw_data(session_state) # None

\* C23: on every rerun in which a raw recording is held, the dataset main
\* hands to the time-window, visualization and export steps is non-null and
\* is the recording get_current_data() designates (processed if held, else
\* raw), also when Apply Filters is pressed with invalid parameters before
\* any filtering has succeeded.
C23_CurrentDataIsHeld ==
    ReachedAnalysis =>
        /\ lastOp.current # "none"
        /\ lastOp.current = "processed"
               => get_current_data(session_state) = processed_data(session_state)
        /\ lastOp.current = "raw_copy"
               => get_current_data(session_state) = raw_data(session_state)

\* the steps apply_pipeline runs on the session's raw recording with p
PipelineSteps(p) ==
    LET out == apply_pipeline(heap, raw_data(session_state), p)
    IN  out.heap[out.id].steps

\* C24: the filter-applied flag is true only if the processed recording
\* held by the session is the output of a successful apply_pipeline run
\* with the requested parameters; when the pipeline raises during Apply
\* Filters the session is not left with an unfiltered copy of raw stored as
\* processed data and the flag set to true.
C24_FlagMeansPipelineOutput ==
    filter_applied(session_state) =>
        /\ raw_data(session_state) # None
        /\ processed_data(session_state) # None
        /\ \E p \in UiParams :
               heap[processed_data(session_state)].steps = PipelineSteps(p)

\* C25: across any sequence of reruns, whenever main proceeds past the
\* loading step the raw recording held was loaded from the currently
\* uploaded file, and a recording is reloaded only when none is held or the
\* uploaded file differs from the file the held recording came from (a
\* file is identified by its name here, sizes follow names).
C25_RawIsTheUploadedFile ==
    [][(/\ lastOp'.op = "main"
        /\ lastOp'.stage \in {"pick_failed", "done", "no_current_data"})
       => /\ raw_data(session_state') # None
          /\ heap'[raw_data(session_state')].src = edf_file'
          /\ lastOp'.reloaded =>
                 \/ raw_data(session_state) = None
                 \/ heap[raw_data(session_state)].src # edf_file']_vars

\* C26: whenever the application analyses processed data, the processed
\* recording's channel set, bad-channel list and event list equal those of
\* the session's raw recording at that moment: what was applied in place to
\* raw after the filters is reflected in the data analysed.
C26_ProcessedFollowsRaw ==
    (ReachedAnalysis /\ lastOp.current = "processed") =>
        LET raw       == heap[raw_data(session_state)]
            processed == heap[processed_data(session_state)]
        IN  /\ processed.ch_names = raw.ch_names
            /\ processed.bads = raw.bads
            /\ processed.annots = raw.annots

\* the samples of the segment build_frames crops for window w
SegmentSamples(w) == crop_n_times(bf.sfreq, w[1], w[2])

\* C27: every window build_frames passes to the band-power estimator, that
\* is every window whose segment has at least 32 samples, is given an FFT
\* window length that does not exceed the segment's sample count, for every
\* sampling rate and every window length the application allows (0.5 s and
\* more).
C27_NfftFitsSegment ==
    (bf.pc = "loop" /\ bf.win_len >= 2 * MinWidth) =>
        \A i \in 1..Len(bf.wins) :
            Min(512, SegmentSamples(bf.wins[i])) >= 32
                => welch_nfft(SegmentSamples(bf.wins[i]))
                       <= SegmentSamples(bf.wins[i])

\* the request of the last apply_pipeline call passes validate_filter_params
\* on the recording it was applied to
RequestValidated ==
    validate_filter_params(heap[pin.raw], pin.p.l_freq, pin.p.h_freq,
                           pin.p.resample) = <<>>

\* C30: whenever validate_filter_params returns no errors for (l_freq,
\* h_freq, resample), the band filter apply_pipeline applies has its lower
\* cutoff strictly below its effective upper cutoff min(h_freq,
\* current_rate/2 - 1), current_rate being the rate after resampling.
C30_ValidatedBandNotInverted ==
    (/\ lastOp.op = "apply_pipeline"
     /\ pout # None
     /\ RequestValidated
     /\ pin.p.l_freq # None) =>
        /\ heap[pout].hf # None
        /\ pin.p.l_freq < heap[pout].hf

\* C28: for a recording of n samples at rate sf and any requested start and
\* end, validate_time_window returns (s, e) with 0 <= s <= e and e no later
\* than the time of the recording's last sample, (n - 1) / sf, the bound
\* marker ingestion clips to, so that the window can be cropped.
C28_WindowInsideRecording ==
    tw.result # <<>> =>
        /\ 0 <= tw.result[1]
        /\ tw.result[1] <= tw.result[2]
        /\ tw.result[2] <= last_sample_time(tw.n)

\* the channels of a region that are present and not bad
GoodChannels(reg) ==
    {c \in Range(REGIONS[reg]) : c \in Range(rg.ch_names) /\ c \notin rg.bads}

\* the sum of the band powers of a set of channels
RECURSIVE SumPower(_)
SumPower(S) ==
    IF S = {} THEN 0
    ELSE LET c == CHOOSE x \in S : TRUE
         IN  channel_power(c) + SumPower(S \ {c})

\* C29: for every channel list and every set of bad channels, each bar of
\* the regional analysis equals the mean of the band powers of exactly the
\* channels that belong to the region, are present and are not bad.
C29_BarsAreRegionMeans ==
    rg.status = "bars" =>
        \A reg \in DOMAIN rg.bars :
            /\ GoodChannels(reg) # {}
            /\ rg.bars[reg][1] * Cardinality(GoodChannels(reg))
                   = rg.bars[reg][2] * SumPower(GoodChannels(reg))
====
